---- MODULE Spec2Model ----
(***************************************************************************)
(* dom-density-map: the grid renderer (render_density_map,                 *)
(* render_sparse_map), the run-length encoder (_rle_row) and the point     *)
(* query formatter (render_elements_at) of src/dom_density_map/core.py.   *)
(*                                                                         *)
(* Python floats are modelled by exact rationals n/d: cell_px is the pair  *)
(* (vw, cols), and every quotient x / cell_px is the rational x*cols/vw.   *)
(* Text is modelled as sequences of one-character tokens; an output line   *)
(* is a record holding the pieces its f-string concatenates.               *)
(***************************************************************************)
EXTENDS Integers, Sequences, FiniteSets, TLC

VARIABLES
    op,          \* which entry point runs: "map" (render_*_map) or "at" (render_elements_at)
    pc,          \* position inside the running call
    vw, vh,      \* data['vw'], data['vh']
    max_cols,    \* max_cols argument
    blocks,      \* blocks argument (Unicode palette)
    sparse,      \* TRUE: render_sparse_map, FALSE: render_density_map
    title, url,  \* title and url arguments ("" when absent)
    elements,    \* data['elements']
    cols, rows,  \* grid size
    density,     \* density[r][c], a function on (0..rows-1) \X (0..cols-1)
    kinds,       \* kinds[r][c]
    interactive, \* the interactive list
    ei,          \* number of elements the raster loop has processed
    lines,       \* the lines of the returned text
    err,         \* the exception the call ended with, "" when none
    divided,     \* TRUE once a division by cols or cell_px was evaluated
    els,         \* document.elementsFromPoint(px, py), front to back
    stack,       \* the elements argument of render_elements_at
    chars,       \* the argument of a call of _rle_row
    encoded,     \* what that call returned
    cdp_id,      \* CDP._id
    cdp_pc,      \* "new" before connect; then "idle", or "waiting" inside send's loop
    cdp_req,     \* msg["id"] of the running send
    cdp_sent,    \* the messages written with ws.send, in order
    cdp_n,       \* number of messages ws.recv has delivered
    cdp_resp,    \* resp, the message the last ws.recv delivered
    cdp_ret      \* what the last finished send returned, with its request id

renderVars == <<op, pc, vw, vh, max_cols, blocks, sparse, title, url, elements, cols,
                rows, density, kinds, interactive, ei, lines, err, divided, els, stack,
                chars, encoded>>

cdpVars == <<cdp_id, cdp_pc, cdp_req, cdp_sent, cdp_n, cdp_resp, cdp_ret>>

vars == <<renderVars, cdpVars>>

(***************************************************************************)
(* Program constants                                                       *)
(***************************************************************************)
CellCap == 16000
MaxInteractive == 50
StackCap == 15
NoKind == "None"

(***************************************************************************)
(* Bounds of the model                                                     *)
(***************************************************************************)
MaxElems == 2
LongLen == 52
MaxStack == 16
MaxGeom == 12
MaxRowLen == 4
MaxStair == 10
MaxId == 5
MaxRecv == 5

(***************************************************************************)
(* Arithmetic                                                              *)
(***************************************************************************)
Min(a, b) == IF a <= b THEN a ELSE b
Max(a, b) == IF a >= b THEN a ELSE b

\* int(n/d) for d > 0: truncation toward zero
Trunc(n, d) == IF n >= 0 THEN n \div d ELSE -((-n) \div d)

\* round(n/d) for d > 0: Python 3 rounds halves to the even neighbour
RoundHalfEven(n, d) ==
    LET f == n \div d
        r2 == 2 * (n - f * d)
    IN  IF r2 < d THEN f
        ELSE IF r2 > d THEN f + 1
        ELSE IF f % 2 = 0 THEN f ELSE f + 1

\* x / cell_px as a fraction <<n, d>> with d > 0, where cell_px = w / c and
\* x = xn / xd (xd > 0); w # 0 and c # 0
DivCell(xn, xd, w, c) ==
    IF w * xd > 0 THEN <<xn * c, xd * w>> ELSE <<-(xn * c), -(xd * w)>>

(***************************************************************************)
(* GridGeometry: core.py lines 243-248 and 379-383                         *)
(***************************************************************************)
GridCols(w, mc) == Min(mc, w)

RowsUncapped(w, h, mc) ==
    LET q == DivCell(h, 1, w, GridCols(w, mc))
    IN  Max(1, RoundHalfEven(q[1], q[2]))

CapRowsNoCap(c, r) == r
CapRows(c, r) == IF c * r > CellCap THEN CellCap \div c ELSE r

GridRows(w, h, mc) == CapRows(GridCols(w, mc), RowsUncapped(w, h, mc))

(***************************************************************************)
(* Rasterizer: core.py lines 256-289 and 389-414                           *)
(***************************************************************************)
\* _PRIORITY, with _PRIORITY.get(kind, 0)
Priority(k) ==
    CASE k = "T" -> 1
      [] k = "I" -> 2
      [] k = "L" -> 3
      [] k = "F" -> 4
      [] k = "B" -> 5
      [] OTHER -> 0

\* max(0, min(v, n - 1))
Clamp(v, n) == Max(0, Min(v, n - 1))

\* int(x / cell_px) for an integer pixel x
CellOf(x, w, c) == LET q == DivCell(x, 1, w, c) IN Trunc(q[1], q[2])

ElC0(e, w, c) == Clamp(CellOf(e.x, w, c), c)
ElC1Exclusive(e, w, c) == Clamp(CellOf(e.x + e.w, w, c), c)
ElC1(e, w, c) == Clamp(CellOf(e.x + e.w - 1, w, c), c)
ElR0(e, w, c, r) == Clamp(CellOf(e.y, w, c), r)
ElR1(e, w, c, r) == Clamp(CellOf(e.y + e.h - 1, w, c), r)

\* the cells the nested loops of lines 272-273 visit
Covers(e, w, c, r, rr, cc) ==
    /\ ElR0(e, w, c, r) <= rr /\ rr <= ElR1(e, w, c, r)
    /\ ElC0(e, w, c) <= cc /\ cc <= ElC1(e, w, c)

Visited(e, w, c, r) ==
    {p \in (ElR0(e, w, c, r)..ElR1(e, w, c, r)) \X (ElC0(e, w, c)..ElC1(e, w, c)) : TRUE}

\* density[r][c] raises IndexError when the list has no such row or column
InGrid(r, c, rr, cc) == rr \in 0..(r - 1) /\ cc \in 0..(c - 1)

\* lines 275-278: the kind of the cell after an element of kind k was drawn
KeepLast(cur, k) == IF k # NoKind THEN k ELSE cur
MergeKind(cur, k) ==
    IF k # NoKind /\ (cur = NoKind \/ Priority(k) > Priority(cur)) THEN k ELSE cur

\* lines 282-289: the entry appended for an interactive element
GridCentre(x2, w, c) == LET q == DivCell(x2, 2, w, c) IN Trunc(q[1], q[2])

Entry(e, w, c) ==
    [kind |-> e.k, label |-> e.l,
     gc |-> GridCentre(2 * e.x + e.w, w, c),
     gr |-> GridCentre(2 * e.y + e.h, w, c),
     px |-> Trunc(2 * e.x + e.w, 2),
     py |-> Trunc(2 * e.y + e.h, 2)]

AppendIfInteractive(list, e, w, c) ==
    IF e.i THEN Append(list, Entry(e, w, c)) ELSE list

(***************************************************************************)
(* CDP.__init__: cdp.py lines 17-20                                        *)
(***************************************************************************)
NoId == -1
NoMsg == [id |-> NoId, method |-> "", result |-> "none"]
NoRet == [req |-> NoId, result |-> "none"]

CdpNew ==
    /\ cdp_id = 0
    /\ cdp_pc = "new"
    /\ cdp_req = NoId
    /\ cdp_sent = <<>>
    /\ cdp_n = 0
    /\ cdp_resp = NoMsg
    /\ cdp_ret = NoRet

(***************************************************************************)
(* Inputs                                                                  *)
(***************************************************************************)
El(x, y, w, h, k, i, l) == [x |-> x, y |-> y, w |-> w, h |-> h, k |-> k, i |-> i, l |-> l]

ElemPool ==
    { El(0, 0, 1, 1, "B", TRUE, "Go"),
      El(0, 0, 4, 3, "T", FALSE, ""),
      El(2, 1, 6, 2, NoKind, FALSE, ""),
      El(2, 1, 3, 1, "L", TRUE, ""),
      El(5, 5, 2, 1, "F", TRUE, "q"),
      El(1, 0, 2, 2, NoKind, TRUE, "x"),
      El(0, 0, 12, 5, "I", FALSE, "") }

ShortLists == UNION { [1..n -> ElemPool] : n \in 0..MaxElems }

KindCycle == <<"B", NoKind, "L", "F", "B", "T">>

\* n elements scattered over a 12 x 5 area, all but the first interactive
LongList(n, s) ==
    [j \in 1..n |->
        El((j * s) % 12, (j * 3) % 5, 1 + (j % 2), 1,
           KindCycle[1 + (j % 6)], j # 1, "")]

LongLists == { LongList(n, 5) : n \in {LongLen - 1, LongLen} }

\* n - 1 kind-less elements of widths 2..n on the top pixel row, n - c of
\* them over column c >= 1 of a grid with one-pixel cells, and a button on
\* column 0, under all of them
Stair(n) ==
    [j \in 1..n |-> IF j = 1 THEN El(0, 0, 1, 1, "B", TRUE, "Go")
                              ELSE El(0, 0, j, 1, NoKind, FALSE, "")]

StairLists == { Stair(n) : n \in {MaxStair - 1, MaxStair} }

\* <<vw, vh, max_cols>>
Viewports ==
    { <<12, 5, 12>>, <<10, 6, 4>>, <<3, 2, 160>>, <<4, 5, 2>>, <<4, 7, 2>>,
      <<6, 9, 4>>, <<16001, 2, 16001>>, <<-2, 3, 4>>, <<0, 3, 4>> }

\* <<blocks, sparse, title, url>>
Configs ==
    { <<FALSE, FALSE, "", "">>, <<FALSE, TRUE, "t", "">>,
      <<TRUE, FALSE, "", "u">>, <<TRUE, TRUE, "t", "u">> }

NoGrid == <<>>

InitMap ==
    /\ op = "map"
    /\ pc = "start"
    /\ \E v \in Viewports : vw = v[1] /\ vh = v[2] /\ max_cols = v[3]
    /\ \E g \in Configs : blocks = g[1] /\ sparse = g[2] /\ title = g[3] /\ url = g[4]
    /\ elements \in ShortLists \cup LongLists \cup StairLists
    /\ cols = 0 /\ rows = 0
    /\ density = NoGrid /\ kinds = NoGrid
    /\ interactive = <<>>
    /\ ei = 0
    /\ lines = <<>>
    /\ err = ""
    /\ divided = FALSE
    /\ els = <<>> /\ stack = <<>>
    /\ chars = <<>> /\ encoded = <<>>
    /\ CdpNew

(***************************************************************************)
(* render_density_map / render_sparse_map, step by step                    *)
(***************************************************************************)
\* lines 243-252 (379-386): grid size and the two matrices
ComputeGrid ==
    /\ op = "map" /\ pc = "start"
    /\ IF GridCols(vw, max_cols) = 0
       THEN \* line 244: vw / cols raises ZeroDivisionError
            /\ pc' = "failed" /\ err' = "ZeroDivisionError"
            /\ divided' = TRUE
            /\ cols' = GridCols(vw, max_cols)
            /\ UNCHANGED <<rows, density, kinds>>
       ELSE /\ pc' = "raster" /\ err' = ""
            /\ divided' = TRUE
            /\ cols' = GridCols(vw, max_cols)
            /\ rows' = GridRows(vw, vh, max_cols)
            /\ density' = [r \in 0..(rows' - 1) |-> [c \in 0..(cols' - 1) |-> 0]]
            /\ kinds' = [r \in 0..(rows' - 1) |-> [c \in 0..(cols' - 1) |-> NoKind]]
    /\ UNCHANGED <<op, vw, vh, max_cols, blocks, sparse, title, url, elements,
                   interactive, ei, lines, els, stack, chars, encoded, cdpVars>>

\* lines 256-289 (389-414): one iteration of `for el in elements`
RasterElement ==
    /\ op = "map" /\ pc = "raster" /\ ei < Len(elements)
    /\ LET e == elements[ei + 1]
           vis == Visited(e, vw, cols, rows)
       IN  IF \E p \in vis : ~InGrid(rows, cols, p[1], p[2])
           THEN \* the first cell visited is outside the lists: IndexError
                /\ pc' = "failed" /\ err' = "IndexError"
                /\ UNCHANGED <<density, kinds, interactive, ei>>
           ELSE /\ density' = [r \in 0..(rows - 1) |-> [c \in 0..(cols - 1) |->
                        IF Covers(e, vw, cols, rows, r, c)
                        THEN density[r][c] + 1 ELSE density[r][c]]]
                /\ kinds' = [r \in 0..(rows - 1) |-> [c \in 0..(cols - 1) |->
                        IF Covers(e, vw, cols, rows, r, c)
                        THEN MergeKind(kinds[r][c], e.k) ELSE kinds[r][c]]]
                /\ interactive' = AppendIfInteractive(interactive, e, vw, cols)
                /\ ei' = ei + 1
                /\ UNCHANGED <<pc, err>>
    /\ UNCHANGED <<op, vw, vh, max_cols, blocks, sparse, title, url, elements,
                   cols, rows, lines, divided, els, stack, chars, encoded, cdpVars>>

(***************************************************************************)
(* InteractiveIndexer: core.py lines 291-293 and 416-417                   *)
(***************************************************************************)
\* key=lambda e: (e['gr'], e['gc']), compared as tuples
KeyLE(a, b) == a.gr < b.gr \/ (a.gr = b.gr /\ a.gc <= b.gc)

\* list.sort is stable: e goes after every entry whose key is <= its own
InsertByKey(s, e) ==
    LET n == Cardinality({i \in 1..Len(s) : KeyLE(s[i], e)})
    IN  SubSeq(s, 1, n) \o <<e>> \o SubSeq(s, n + 1, Len(s))

RECURSIVE SortByCell(_)
SortByCell(list) ==
    IF list = <<>> THEN <<>>
    ELSE InsertByKey(SortByCell(SubSeq(list, 1, Len(list) - 1)), list[Len(list)])

\* interactive[:50]
TruncateNone(list) == list
Truncate(list) == SubSeq(list, 1, Min(Len(list), MaxInteractive))

(***************************************************************************)
(* GlyphMapper: core.py lines 208-234, 329-332                             *)
(***************************************************************************)
\* the block palette's characters, named by code point
DensityCharSolidFromNine(count, blk) ==
    IF blk
    THEN IF count = 0 THEN " "
         ELSE IF count = 1 THEN "u2591"
         ELSE IF count <= 3 THEN "u2592"
         ELSE IF count <= 8 THEN "u2593"
         ELSE "u2588"
    ELSE IF count = 0 THEN " "
         ELSE IF count = 1 THEN "."
         ELSE IF count <= 3 THEN ":"
         ELSE IF count <= 8 THEN "#"
         ELSE "@"
DensityChar(count, blk) ==
    IF blk
    THEN IF count = 0 THEN " "
         ELSE IF count = 1 THEN "u2591"
         ELSE IF count <= 3 THEN "u2592"
         ELSE IF count <= 7 THEN "u2593"
         ELSE "u2588"
    ELSE IF count = 0 THEN " "
         ELSE IF count = 1 THEN "."
         ELSE IF count <= 3 THEN ":"
         ELSE IF count <= 7 THEN "#"
         ELSE "@"

BlockTypes(k) ==
    CASE k = "B" -> "u25a3"
      [] k = "F" -> "u25a4"
      [] k = "L" -> "u25a8"
      [] k = "I" -> "u25a7"
      [] k = "T" -> "u25a5"

Glyph(d, k, blk) ==
    IF k # NoKind THEN (IF blk THEN BlockTypes(k) ELSE k) ELSE DensityChar(d, blk)

\* one list of characters per grid row (lines 324-333, 420-430)
CharRows(dens, knd, r, c, blk) ==
    [i \in 1..Max(r, 0) |-> [j \in 1..Max(c, 0) |-> Glyph(dens[i - 1][j - 1], knd[i - 1][j - 1], blk)]]

(***************************************************************************)
(* Decimal formatting of f"{n}"                                            *)
(***************************************************************************)
Digits == <<"0", "1", "2", "3", "4", "5", "6", "7", "8", "9">>

RECURSIVE Decimal(_)
Decimal(n) ==
    IF n < 10 THEN <<Digits[n + 1]>>
    ELSE Decimal(n \div 10) \o <<Digits[(n % 10) + 1]>>

(***************************************************************************)
(* _rle_row: core.py lines 355-370                                         *)
(***************************************************************************)
\* cur if count == 1 else f"{cur}{count}"
Run(cur, count) == IF count = 1 THEN <<cur>> ELSE <<cur>> \o Decimal(count)

\* the loop over chars[1:], at position i (1-based), with cur, count and parts
RECURSIVE RleLoop(_, _, _, _, _)
RleLoop(row, i, cur, count, parts) ==
    IF i > Len(row) THEN parts \o Run(cur, count)
    ELSE IF row[i] = cur
         THEN RleLoop(row, i + 1, cur, count + 1, parts)
         ELSE RleLoop(row, i + 1, row[i], 1, parts \o Run(cur, count))

RleRowCountFromZero(row) ==
    IF row = <<>> THEN <<>> ELSE RleLoop(row, 2, row[1], 0, <<>>)
RleRow(row) ==
    IF row = <<>> THEN <<>> ELSE RleLoop(row, 2, row[1], 1, <<>>)

(***************************************************************************)
(* Output lines.  Each line is a record of the pieces its f-string joins:  *)
(*   [t |-> "text", s]                a literal line                       *)
(*   [t |-> "viewport", ...]          "Viewport: {vw}x{vh}  Grid: ..."     *)
(*   [t |-> "elements", count, n]     "Elements: {count} visible, {n} ..." *)
(*   [t |-> "ruler", chars]           a line of the column ruler           *)
(*   [t |-> "grid", chars]            a grid row of the dense map          *)
(*   [t |-> "row", first, last, ranged, body, times]                      *)
(*        "r{first}: {body}", "r{first}-{last}: {body}" when ranged, and   *)
(*        the suffix "  (x{times})" when times > 0                         *)
(*   [t |-> "iheader", n]             "--- Interactive ({n}) ---"          *)
(*   [t |-> "entry", eid, label, gc, gr, px, py]                           *)
(*        "{eid}: "{label}" at grid({gc},{gr}) px({px},{py})" (dense)      *)
(*   [t |-> "entry", eid, label, px, py]                                   *)
(*        "{eid}: "{label}" ({px},{py})" (sparse)                          *)
(*        where eid = f"{k}{type_counters[k]}"                             *)
(***************************************************************************)
Text(s) == [t |-> "text", s |-> s]

\* lines 300-314 and 437-446
HeaderLines(sp, blk, ttl, u, w, h, c, r, count, n) ==
    <<Text(IF sp THEN "=== DOM Density Map (sparse) ===" ELSE "=== DOM Density Map ===")>>
    \o (IF ttl # "" THEN <<[t |-> "page", s |-> ttl]>> ELSE <<>>)
    \o (IF u # "" THEN <<[t |-> "url", s |-> u]>> ELSE <<>>)
    \o <<[t |-> "viewport", vw |-> w, vh |-> h, cols |-> c, rows |-> r,
          \* {cell_px:.0f}
          cell |-> IF w > 0 THEN RoundHalfEven(w, c) ELSE RoundHalfEven(-w, -c)],
         [t |-> "elements", count |-> count, n |-> n]>>
    \o (IF sp
        THEN <<Text("Key: _=empty .=1 :=2-3 #=4-7 @=8+ B=btn L=link F=input I=img T=text"),
               Text("RLE: X5 = XXXXX"),
               Text("")>>
        ELSE <<Text("")>>
             \o (IF blk
                 THEN <<Text("Legend: (space)=empty u2591=1 u2592=2-3 u2593=4-7 u2588=8+"),
                        Text("        u25a3=button u25a8=link u25a4=input u25a7=image/video u25a5=text")>>
                 ELSE <<Text("Legend: (space)=empty .=1elem :=2-3 #=4-7 @=8+"),
                        Text("        B=button L=link F=input I=image/video T=text")>>)
             \o <<Text("")>>)

\* lines 317-321: the column ruler
RulerLines(c) ==
    <<[t |-> "ruler", chars |-> [i \in 1..Max(c, 0) |->
            IF (i - 1) % 10 = 0 THEN Digits[(((i - 1) \div 10) % 10) + 1] ELSE " "]],
      [t |-> "ruler", chars |-> [i \in 1..Max(c, 0) |-> Digits[((i - 1) % 10) + 1]]]>>

GridLines(crows) == [i \in 1..Len(crows) |-> [t |-> "grid", chars |-> crows[i]]]

\* lines 453-455: the first index j > i (0-based) whose encoding differs from row i
RECURSIVE RunEnd(_, _, _)
RunEnd(rle, i, j) ==
    IF j < Len(rle) /\ rle[j + 1] = rle[i + 1] THEN RunEnd(rle, i, j + 1) ELSE j

EmptyMark == <<"(empty)">>

\* lines 459-471: the line emitted for rows i..j-1 (0-based)
IsEmptyRow(row) == \A x \in 1..Len(row) : row[x] = " "

RowLineSuffixFromTwo(rle, crows, i, j) ==
    [t |-> "row", first |-> i, last |-> j - 1, ranged |-> j - i > 1,
     body |-> IF IsEmptyRow(crows[i + 1]) THEN EmptyMark ELSE rle[i + 1],
     times |-> IF j - i >= 2 /\ ~IsEmptyRow(crows[i + 1]) THEN j - i ELSE 0]

RowLine(rle, crows, i, j) ==
    LET count == j - i
    IN  IF IsEmptyRow(crows[i + 1])
        THEN IF count = 1
             THEN [t |-> "row", first |-> i, last |-> i, ranged |-> FALSE,
                   body |-> EmptyMark, times |-> 0]
             ELSE [t |-> "row", first |-> i, last |-> j - 1, ranged |-> TRUE,
                   body |-> EmptyMark, times |-> 0]
        ELSE IF count = 1
             THEN [t |-> "row", first |-> i, last |-> i, ranged |-> FALSE,
                   body |-> rle[i + 1], times |-> 0]
        ELSE IF count = 2
             THEN [t |-> "row", first |-> i, last |-> j - 1, ranged |-> TRUE,
                   body |-> rle[i + 1], times |-> 0]
        ELSE [t |-> "row", first |-> i, last |-> j - 1, ranged |-> TRUE,
              body |-> rle[i + 1], times |-> count]

\* lines 449-472: while i < len(rle_rows)
RECURSIVE SparseRowLines(_, _, _)
SparseRowLines(rle, crows, i) ==
    IF i >= Len(rle) THEN <<>>
    ELSE LET j == RunEnd(rle, i, i + 1)
         IN  <<RowLine(rle, crows, i, j)>> \o SparseRowLines(rle, crows, j)

\* lines 340-350 and 478-487: per-kind counters and one line per entry
Buckets == {"T", "I", "L", "F", "B", "?"}
Bucket(k) == IF k = NoKind THEN "?" ELSE k

NextIdShared(counters, k) == 1 + counters["?"] + counters["T"] + counters["I"]
                               + counters["L"] + counters["F"] + counters["B"]
NextId(counters, k) == counters[k] + 1

RECURSIVE EntryLines(_, _, _, _)
EntryLines(items, i, counters, dense) ==
    IF i > Len(items) THEN <<>>
    ELSE LET it == items[i]
             k == Bucket(it.kind)
             n == NextId(counters, k)
         IN  <<IF dense
               THEN [t |-> "entry", eid |-> <<k>> \o Decimal(n), label |-> it.label,
                     gc |-> it.gc, gr |-> it.gr, px |-> it.px, py |-> it.py]
               ELSE [t |-> "entry", eid |-> <<k>> \o Decimal(n), label |-> it.label,
                     px |-> it.px, py |-> it.py]>>
             \o EntryLines(items, i + 1, [counters EXCEPT ![k] = n], dense)

\* lines 336-350 and 475-487: nothing at all for an empty list
InteractiveAlways(items, dense) ==
    <<Text(""), [t |-> "iheader", n |-> Len(items)]>>
    \o EntryLines(items, 1, [b \in Buckets |-> 0], dense)
InteractiveLines(items, dense) ==
    IF items = <<>> THEN <<>>
    ELSE <<Text(""), [t |-> "iheader", n |-> Len(items)]>>
         \o EntryLines(items, 1, [b \in Buckets |-> 0], dense)

\* lines 291-293 (416-417): after the loop, sort and truncate
SortTruncate ==
    /\ op = "map" /\ pc = "raster" /\ ei = Len(elements)
    /\ interactive' = Truncate(SortByCell(interactive))
    /\ pc' = "emit"
    /\ UNCHANGED <<op, vw, vh, max_cols, blocks, sparse, title, url, elements,
                   cols, rows, density, kinds, ei, lines, err, divided, els, stack, chars, encoded, cdpVars>>

\* lines 298-352 of render_density_map
EmitDense ==
    /\ op = "map" /\ pc = "emit" /\ ~sparse
    /\ lines' = HeaderLines(FALSE, blocks, title, url, vw, vh, cols, rows,
                            Len(elements), Len(interactive))
                \o RulerLines(cols)
                \o GridLines(CharRows(density, kinds, rows, cols, blocks))
                \o InteractiveLines(interactive, TRUE)
    /\ pc' = "done"
    /\ UNCHANGED <<op, vw, vh, max_cols, blocks, sparse, title, url, elements,
                   cols, rows, density, kinds, interactive, ei, err, divided, els, stack, chars, encoded, cdpVars>>

\* lines 419-489 of render_sparse_map
EmitSparse ==
    /\ op = "map" /\ pc = "emit" /\ sparse
    /\ LET crows == CharRows(density, kinds, rows, cols, blocks)
           rle == [i \in 1..Len(crows) |-> RleRow(crows[i])]
       IN  lines' = HeaderLines(TRUE, blocks, title, url, vw, vh, cols, rows,
                                Len(elements), Len(interactive))
                    \o SparseRowLines(rle, crows, 0)
                    \o InteractiveLines(interactive, FALSE)
    /\ pc' = "done"
    /\ UNCHANGED <<op, vw, vh, max_cols, blocks, sparse, title, url, elements,
                   cols, rows, density, kinds, interactive, ei, err, divided, els, stack, chars, encoded, cdpVars>>

(***************************************************************************)
(* Point query: ELEMENTS_AT_JS (core.py lines 102-156), run (582-590) and  *)
(* render_elements_at (159-198)                                            *)
(***************************************************************************)
\* the j-th element under the point; "" and FALSE stand for an absent key
AtEl(j, v) ==
    [tag |-> IF j % 2 = v THEN "div" ELSE "a",
     id |-> IF j % 3 = 0 THEN "main" ELSE "",
     role |-> IF j % 4 = 1 THEN "button" ELSE "",
     data_e2e |-> "",
     cls |-> IF j % 2 = 0 THEN "c1 c2" ELSE "",
     aria |-> IF j % 5 = 0 THEN "Close" ELSE "",
     href |-> IF j % 2 = v THEN "" ELSE "/x",
     text |-> IF j % 3 = 1 THEN "hello" ELSE "",
     pressed |-> "",
     editable |-> j = 2, disabled |-> j = 3, clickable |-> j % 2 = 1,
     bg |-> IF j = 1 THEN "rgb(0, 0, 0)" ELSE "",
     color |-> "rgb(1, 1, 1)",
     rect |-> [x |-> j, y |-> 2 * j, w |-> 10, h |-> 5]]

DomStacks == { [j \in 1..n |-> AtEl(j, v)] : n \in 0..MaxStack, v \in {0, 1} }

\* ELEMENTS_AT_JS line 106: for (i = 0; i < els.length && results.length < 15; i++)
CollectAll(s) == s
Collect(s) == SubSeq(s, 1, Min(Len(s), StackCap))

Attr(name, present, v) ==
    IF present THEN <<[t |-> "attr", name |-> name, v |-> v]>> ELSE <<>>

\* lines 166-197: the block of stack entry el, enumerate index i (0-based)
Block(el, i) ==
    <<[t |-> "head", i |-> i, tag |-> el.tag,
       id |-> el.id, role |-> el.role, data_e2e |-> el.data_e2e]>>
    \o Attr("class", el.cls # "", el.cls)
    \o Attr("aria-label", el.aria # "", el.aria)
    \o Attr("href", el.href # "", el.href)
    \o Attr("text", el.text # "", el.text)
    \o Attr("aria-pressed", el.pressed # "", el.pressed)
    \o Attr("contentEditable", el.editable, "true")
    \o Attr("disabled", el.disabled, "true")
    \o Attr("cursor", el.clickable, "pointer")
    \o Attr("bg", el.bg # "", el.bg)
    \o Attr("color", el.color # "", el.color)
    \o <<[t |-> "rect", x |-> el.rect.x, y |-> el.rect.y, w |-> el.rect.w, h |-> el.rect.h]>>

RECURSIVE Blocks(_, _)
Blocks(s, i) ==
    IF i >= Len(s) THEN <<>> ELSE Block(s[i + 1], i) \o Blocks(s, i + 1)

\* lines 161-165
AtLines(s) ==
    <<Text("=== Elements at px ==="), [t |-> "depth", n |-> Len(s)], Text("")>>
    \o Blocks(s, 0)

\* op = "at_run": the point query of run(); op = "at_api": a direct call of
\* the exported render_elements_at with the caller's own list
InitAt ==
    /\ op \in {"at_run", "at_api"}
    /\ pc = "start"
    /\ els \in DomStacks
    /\ stack = <<>>
    /\ vw = 0 /\ vh = 0 /\ max_cols = 0
    /\ blocks = FALSE /\ sparse = FALSE
    /\ title = "" /\ url = ""
    /\ elements = <<>>
    /\ cols = 0 /\ rows = 0
    /\ density = NoGrid /\ kinds = NoGrid
    /\ interactive = <<>>
    /\ ei = 0
    /\ lines = <<>>
    /\ err = ""
    /\ divided = FALSE
    /\ chars = <<>> /\ encoded = <<>>
    /\ CdpNew

\* run, lines 582-587: evaluate ELEMENTS_AT_JS; "No elements found" when empty
CollectElementsAt ==
    /\ op = "at_run" /\ pc = "start"
    /\ stack' = Collect(els)
    /\ IF stack' = <<>>
       THEN pc' = "done" /\ lines' = <<Text("No elements found at px")>>
       ELSE pc' = "at" /\ UNCHANGED lines
    /\ UNCHANGED <<op, vw, vh, max_cols, blocks, sparse, title, url, elements, cols,
                   rows, density, kinds, interactive, ei, err, divided, els, chars, encoded, cdpVars>>

\* a caller of the package passes its own list
CallElementsAt ==
    /\ op = "at_api" /\ pc = "start"
    /\ stack' = els
    /\ pc' = "at"
    /\ UNCHANGED <<op, vw, vh, max_cols, blocks, sparse, title, url, elements, cols,
                   rows, density, kinds, interactive, ei, lines, err, divided, els, chars, encoded, cdpVars>>

\* render_elements_at, lines 159-198
RenderElementsAt ==
    /\ op \in {"at_run", "at_api"} /\ pc = "at"
    /\ lines' = AtLines(stack)
    /\ pc' = "done"
    /\ UNCHANGED <<op, vw, vh, max_cols, blocks, sparse, title, url, elements, cols,
                   rows, density, kinds, interactive, ei, err, divided, els, stack, chars, encoded, cdpVars>>

(***************************************************************************)
(* Specification of the package: one call of one entry point               *)
(***************************************************************************)
Init == InitMap \/ InitAt

Next ==
    \/ ComputeGrid
    \/ RasterElement
    \/ SortTruncate
    \/ EmitDense
    \/ EmitSparse
    \/ CollectElementsAt
    \/ CallElementsAt
    \/ RenderElementsAt

Spec == Init /\ [][Next]_vars

(***************************************************************************)
(* GridGeometry alone (lines 243-248, 379-383), over large viewports       *)
(***************************************************************************)
GeomWidths == (-2..MaxGeom) \cup {160, 1000, 1920, 8001, 16000, 16001, 20000}
GeomHeights == (-1..MaxGeom) \cup {100, 101, 1080, 16000, 16001, 40000}
GeomCols == (1..MaxGeom) \cup {80, 160, 8001, 16000, 16001, 20000}

InitGeom ==
    /\ op = "geom"
    /\ pc = "start"
    /\ vw \in GeomWidths /\ vh \in GeomHeights /\ max_cols \in GeomCols
    /\ blocks = FALSE /\ sparse = FALSE
    /\ title = "" /\ url = ""
    /\ elements = <<>>
    /\ cols = 0 /\ rows = 0
    /\ density = NoGrid /\ kinds = NoGrid
    /\ interactive = <<>>
    /\ ei = 0
    /\ lines = <<>>
    /\ err = ""
    /\ divided = FALSE
    /\ els = <<>> /\ stack = <<>>
    /\ chars = <<>> /\ encoded = <<>>
    /\ CdpNew

GridGeometry ==
    /\ op = "geom" /\ pc = "start"
    /\ cols' = GridCols(vw, max_cols)
    /\ divided' = TRUE
    /\ IF cols' = 0
       THEN pc' = "failed" /\ err' = "ZeroDivisionError" /\ UNCHANGED rows
       ELSE pc' = "grid" /\ err' = "" /\ rows' = GridRows(vw, vh, max_cols)
    /\ UNCHANGED <<op, vw, vh, max_cols, blocks, sparse, title, url, elements,
                   density, kinds, interactive, ei, lines, els, stack, chars, encoded, cdpVars>>

NextGeom == GridGeometry

SpecGeom == InitGeom /\ [][NextGeom]_vars

(***************************************************************************)
(* _rle_row alone (lines 355-370), over rows of both palettes              *)
(***************************************************************************)
RleGlyphs == {" ", "B", "u2591", "#"}
RunLens == {1, 2, 9, 10, 11, 20}

Repeat(g, n) == [i \in 1..n |-> g]

ShortRows == UNION { [1..n -> RleGlyphs] : n \in 0..MaxRowLen }
RunRows ==
    { Repeat(a[1], a[2]) \o Repeat(b[1], b[2]) \o Repeat(c[1], c[2]) :
        a \in {" ", "B"} \X RunLens, b \in {"B", "u2591"} \X RunLens,
        c \in {" ", "u2591"} \X RunLens }

InitRle ==
    /\ op = "rle"
    /\ pc = "start"
    /\ chars \in ShortRows \cup RunRows
    /\ encoded = <<>>
    /\ CdpNew
    /\ vw = 0 /\ vh = 0 /\ max_cols = 0
    /\ blocks = FALSE /\ sparse = FALSE
    /\ title = "" /\ url = ""
    /\ elements = <<>>
    /\ cols = 0 /\ rows = 0
    /\ density = NoGrid /\ kinds = NoGrid
    /\ interactive = <<>>
    /\ ei = 0
    /\ lines = <<>>
    /\ err = ""
    /\ divided = FALSE
    /\ els = <<>> /\ stack = <<>>

RleEncode ==
    /\ op = "rle" /\ pc = "start"
    /\ encoded' = RleRow(chars)
    /\ pc' = "done"
    /\ UNCHANGED <<op, vw, vh, max_cols, blocks, sparse, title, url, elements, cols,
                   rows, density, kinds, interactive, ei, lines, err, divided, els,
                   stack, chars, cdpVars>>

NextRle == RleEncode

SpecRle == InitRle /\ [][NextRle]_vars

(***************************************************************************)
(* CDP: connect, send, close  (cdp.py lines 22-61)                         *)
(* A message is modelled by the three keys send reads or writes; NoId,     *)
(* "" and "none" stand for an absent key.                                  *)
(***************************************************************************)
Dialog == "Page.javascriptDialogOpening"
Handle == "Page.handleJavaScriptDialog"

\* the messages a browser can put on the socket: replies, error replies,
\* events, and objects carrying both an id and a method
Msgs ==
    [id : {NoId} \cup (1..MaxId),
     method : {"", Dialog, "Page.loadEventFired"},
     result : {"none", "r1"}]

\* the callers of send: connect (line 24), navigate (49), execute_js (53)
Calls == {<<"Page.navigate", "url">>, <<"Runtime.evaluate", "expression">>}

\* line 35
IsDialog(resp) == resp.method = Dialog

IsReplyAnyId(resp, id) == resp.id # NoId

\* line 43
IsReply(resp, id) == resp.id = id

\* line 44: resp.get("result", {})
ResultOf(resp) == IF resp.result = "none" THEN "{}" ELSE resp.result

\* lines 27-31
BeginSend(method, params) ==
    /\ cdp_id < MaxId
    /\ cdp_id' = cdp_id + 1
    /\ cdp_req' = cdp_id + 1
    /\ cdp_sent' = Append(cdp_sent,
                          [id |-> cdp_id + 1, method |-> method, params |-> params])
    /\ cdp_pc' = "waiting"
    /\ UNCHANGED <<cdp_n, cdp_resp, cdp_ret>>

\* lines 22-24, up to the first recv of send("Page.enable")
Connect ==
    /\ op = "cdp" /\ cdp_pc = "new"
    /\ BeginSend("Page.enable", "none")
    /\ UNCHANGED renderVars

\* navigate or execute_js entering send
Send ==
    /\ op = "cdp" /\ cdp_pc = "idle"
    /\ \E c \in Calls : BeginSend(c[1], c[2])
    /\ UNCHANGED renderVars

\* lines 33-42: one turn of the loop on a dialog event
RecvDialog ==
    /\ op = "cdp" /\ cdp_pc = "waiting"
    /\ cdp_n < MaxRecv /\ cdp_id < MaxId
    /\ \E resp \in Msgs :
          /\ IsDialog(resp)
          /\ cdp_resp' = resp
          /\ cdp_n' = cdp_n + 1
          /\ cdp_id' = cdp_id + 1
          /\ cdp_sent' = Append(cdp_sent,
                                [id |-> cdp_id + 1, method |-> Handle,
                                 params |-> "accept:true"])
    /\ UNCHANGED <<cdp_pc, cdp_req, cdp_ret>>
    /\ UNCHANGED renderVars

\* lines 33-35, 43-44: the turn of the loop that returns
RecvReply ==
    /\ op = "cdp" /\ cdp_pc = "waiting"
    /\ cdp_n < MaxRecv
    /\ \E resp \in Msgs :
          /\ ~IsDialog(resp)
          /\ IsReply(resp, cdp_req)
          /\ cdp_resp' = resp
          /\ cdp_n' = cdp_n + 1
          /\ cdp_ret' = [req |-> cdp_req, result |-> ResultOf(resp)]
    /\ cdp_pc' = "idle"
    /\ cdp_req' = NoId
    /\ UNCHANGED <<cdp_id, cdp_sent>>
    /\ UNCHANGED renderVars

\* lines 33-35, 43: a message that is neither; the loop reads on
RecvOther ==
    /\ op = "cdp" /\ cdp_pc = "waiting"
    /\ cdp_n < MaxRecv
    /\ \E resp \in Msgs :
          /\ ~IsDialog(resp)
          /\ ~IsReply(resp, cdp_req)
          /\ cdp_resp' = resp
          /\ cdp_n' = cdp_n + 1
    /\ UNCHANGED <<cdp_id, cdp_pc, cdp_req, cdp_sent, cdp_ret>>
    /\ UNCHANGED renderVars

\* lines 59-61
Close ==
    /\ op = "cdp" /\ cdp_pc = "idle"
    /\ cdp_pc' = "closed"
    /\ UNCHANGED <<cdp_id, cdp_req, cdp_sent, cdp_n, cdp_resp, cdp_ret>>
    /\ UNCHANGED renderVars

InitCdp ==
    /\ op = "cdp"
    /\ pc = "start"
    /\ CdpNew
    /\ chars = <<>> /\ encoded = <<>>
    /\ vw = 0 /\ vh = 0 /\ max_cols = 0
    /\ blocks = FALSE /\ sparse = FALSE
    /\ title = "" /\ url = ""
    /\ elements = <<>>
    /\ cols = 0 /\ rows = 0
    /\ density = NoGrid /\ kinds = NoGrid
    /\ interactive = <<>>
    /\ ei = 0
    /\ lines = <<>>
    /\ err = ""
    /\ divided = FALSE
    /\ els = <<>> /\ stack = <<>>

NextCdp ==
    \/ Connect
    \/ Send
    \/ RecvDialog
    \/ RecvReply
    \/ RecvOther
    \/ Close

SpecCdp == InitCdp /\ [][NextCdp]_vars

(***************************************************************************)
(* Properties                                                              *)
(***************************************************************************)
GridKnown == op \in {"map", "geom"} /\ pc \notin {"start", "failed"}

\* C1: for every viewport with width > 0 and every positive max_cols the
\* grid has cols = min(max_cols, width) columns and at most 16000 cells.
GridWithinCap ==
    (GridKnown /\ vw > 0 /\ max_cols > 0) =>
        /\ cols <= max_cols /\ cols <= vw
        /\ (cols = max_cols \/ cols = vw)
        /\ cols * rows <= 16000

\* a grid whose row count the cap reduced, and which still has rows
GridCapApplied ==
    /\ GridKnown /\ vw > 0 /\ max_cols > 0
    /\ cols * RowsUncapped(vw, vh, max_cols) > 16000
    /\ rows >= 1 /\ rows < RowsUncapped(vw, vh, max_cols)

\* C2: a render call whose viewport width is <= 0 fails with InvalidViewport
\* before any division, and produces no output.
InvalidViewportRejected ==
    (op = "map" /\ vw <= 0 /\ pc # "start") =>
        /\ pc = "failed" /\ err = "InvalidViewport"
        /\ ~divided
        /\ lines = <<>>

\* the closed cell rectangle of an element, from the pixel arithmetic of a
\* valid viewport: floor(x * cols / vw), both ends clamped into the grid
LowCell(x, n) == LET q == (x * cols) \div vw IN IF q < 0 THEN 0 ELSE IF q > n - 1 THEN n - 1 ELSE q
InRect(e, r, c) ==
    /\ LowCell(e.x, cols) <= c /\ c <= LowCell(e.x + e.w - 1, cols)
    /\ LowCell(e.y, rows) <= r /\ r <= LowCell(e.y + e.h - 1, rows)

Rastered == op = "map" /\ pc \in {"raster", "emit", "done"} /\ vw > 0

\* C3: the density of each cell is the number of elements drawn so far
\* whose closed cell rectangle contains it.
DensityCountsCovers ==
    Rastered =>
        \A r \in 0..(rows - 1), c \in 0..(cols - 1) :
            density[r][c] = Cardinality({i \in 1..ei : InRect(elements[i], r, c)})

\* two elements drawn: one inside a single cell, one spanning several; a
\* cell under both, a cell under one and a cell under none
DensityWitness ==
    /\ Rastered /\ pc = "done" /\ ei = 2
    /\ \E i \in 1..2 : \E r \in 0..(rows - 1), c \in 0..(cols - 1) :
          \A rr \in 0..(rows - 1), cc \in 0..(cols - 1) :
              InRect(elements[i], rr, cc) <=> (rr = r /\ cc = c)
    /\ \E r \in 0..(rows - 1), c \in 0..(cols - 1) : density[r][c] = 2
    /\ \E r \in 0..(rows - 1), c \in 0..(cols - 1) : density[r][c] = 1
    /\ \E r \in 0..(rows - 1), c \in 0..(cols - 1) : density[r][c] = 0

\* the fixed order Text < Image < Link < Field < Button
KindOrder == <<"T", "I", "L", "F", "B">>
Rank(k) == CHOOSE n \in 1..5 : KindOrder[n] = k
KindsOver(r, c) ==
    {elements[i].k : i \in {j \in 1..ei : InRect(elements[j], r, c) /\ elements[j].k # NoKind}}

\* C4: the dominant kind of each cell is the kind of highest priority among
\* the elements with a kind that cover it, in any order of the elements, and
\* is absent when no covering element has a kind.
DominantKindIsHighest ==
    Rastered =>
        \A r \in 0..(rows - 1), c \in 0..(cols - 1) :
            IF KindsOver(r, c) = {}
            THEN kinds[r][c] = NoKind
            ELSE /\ kinds[r][c] \in KindsOver(r, c)
                 /\ \A k \in KindsOver(r, c) : Rank(k) <= Rank(kinds[r][c])

\* a cell where a lower kind was drawn after a higher one, and a cell that
\* only a kind-less element covers
DominantKindWitness ==
    /\ Rastered /\ pc = "done"
    /\ \E r \in 0..(rows - 1), c \in 0..(cols - 1) : \E i, j \in 1..ei :
          /\ i < j
          /\ InRect(elements[i], r, c) /\ InRect(elements[j], r, c)
          /\ elements[i].k # NoKind /\ elements[j].k # NoKind
          /\ Rank(elements[j].k) < Rank(elements[i].k)
          /\ kinds[r][c] = elements[i].k
    /\ \E r \in 0..(rows - 1), c \in 0..(cols - 1) :
          density[r][c] > 0 /\ kinds[r][c] = NoKind

\* the entries of all interactive elements, in input order
RECURSIVE AllEntries(_)
AllEntries(n) ==
    IF n = 0 THEN <<>>
    ELSE IF elements[n].i
         THEN Append(AllEntries(n - 1),
                     [kind |-> elements[n].k, label |-> elements[n].l,
                      gc |-> ((2 * elements[n].x + elements[n].w) * cols) \div (2 * vw),
                      gr |-> ((2 * elements[n].y + elements[n].h) * cols) \div (2 * vw),
                      px |-> (2 * elements[n].x + elements[n].w) \div 2,
                      py |-> (2 * elements[n].y + elements[n].h) \div 2])
         ELSE AllEntries(n - 1)

Before(a, b) == a.gr < b.gr \/ (a.gr = b.gr /\ a.gc < b.gc)
Times(s, v) == Cardinality({i \in 1..Len(s) : s[i] = v})
Published == op = "map" /\ pc \in {"emit", "done"} /\ vw > 0

\* C5: the published interactive entries are entries of interactive elements
\* only, non-decreasing in (grid_row, grid_col), at most 50, and the first 50
\* of the sorted list when more than 50 elements are interactive.
PublishedInteractive ==
    Published =>
        LET all == AllEntries(Len(elements))
        IN  /\ Len(interactive) <= 50
            /\ Len(interactive) = (IF Len(all) > 50 THEN 50 ELSE Len(all))
            /\ \A i \in 1..Len(interactive) :
                  Times(interactive, interactive[i]) <= Times(all, interactive[i])
            /\ \A i \in 1..(Len(interactive) - 1) :
                  ~Before(interactive[i + 1], interactive[i])
            \* no entry left out sorts before a published one
            /\ \A i \in 1..Len(interactive) :
                  Cardinality({j \in 1..Len(all) : Before(all[j], interactive[i])})
                  = Cardinality({j \in 1..Len(interactive) : Before(interactive[j], interactive[i])})
            /\ pc = "done" =>
                  Len(SelectSeq(lines, LAMBDA l : l.t = "entry")) = Len(interactive)

\* more than 50 interactive elements, given out of order, and 50 published
TruncatedWitness ==
    /\ Published /\ pc = "done"
    /\ Len(AllEntries(Len(elements))) > 50
    /\ Len(interactive) = 50
    /\ \E i \in 1..(Len(elements) - 1) :
          /\ elements[i].i /\ elements[i + 1].i
          /\ elements[i + 1].y < elements[i].y
    /\ \E i \in 1..49 : Before(interactive[i], interactive[i + 1])

\* the number a decimal string denotes
RECURSIVE NumberOf(_)
NumberOf(ds) ==
    IF ds = <<>> THEN 0
    ELSE 10 * NumberOf(SubSeq(ds, 1, Len(ds) - 1))
         + (CHOOSE d \in 0..9 : Digits[d + 1] = ds[Len(ds)])

IsDigit(ch) == \E d \in 1..10 : Digits[d] = ch
EntryLinesOf(ls) == SelectSeq(ls, LAMBDA l : l.t = "entry")
EidKind(l) == l.eid[1]
EidNumber(l) == NumberOf(SubSeq(l.eid, 2, Len(l.eid)))

\* C6: within one render, the sequence numbers of the entries of each kind
\* (kind-less entries under "?"), read in output order, are 1, 2, ..., n, so
\* no two entries carry the same identifier.
SequenceIdsConsecutive ==
    (op = "map" /\ pc = "done") =>
        LET es == EntryLinesOf(lines)
        IN  /\ Len(es) = Len(interactive)
            /\ \A i \in 1..Len(es) :
                  /\ Len(es[i].eid) >= 2
                  /\ \A x \in 2..Len(es[i].eid) : IsDigit(es[i].eid[x])
                  /\ EidKind(es[i]) = (IF interactive[i].kind = NoKind THEN "?"
                                       ELSE interactive[i].kind)
                  /\ EidNumber(es[i])
                     = Cardinality({j \in 1..i : EidKind(es[j]) = EidKind(es[i])})
            /\ \A i, j \in 1..Len(es) : i # j => es[i].eid # es[j].eid

\* entries of three kinds, one of them the "?" bucket, one kind with a
\* two-digit count
SequenceIdsWitness ==
    /\ op = "map" /\ pc = "done"
    /\ LET es == EntryLinesOf(lines)
       IN  /\ \E i \in 1..Len(es) : EidKind(es[i]) = "?" /\ EidNumber(es[i]) >= 2
           /\ \E i \in 1..Len(es) : EidKind(es[i]) = "B" /\ EidNumber(es[i]) >= 10
           /\ \E i \in 1..Len(es) : EidKind(es[i]) = "L" /\ EidNumber(es[i]) >= 2
           /\ \E i \in 2..Len(es) : EidNumber(es[i]) = 1

\* decoding: a character, then its optional decimal count (absent: 1)
RECURSIVE CountEnd(_, _)
CountEnd(enc, i) == IF i <= Len(enc) /\ IsDigit(enc[i]) THEN CountEnd(enc, i + 1) ELSE i

RECURSIVE RunsOf(_, _)
RunsOf(enc, i) ==
    IF i > Len(enc) THEN <<>>
    ELSE LET j == CountEnd(enc, i + 1)
         IN  <<[ch |-> enc[i],
                n |-> IF j = i + 1 THEN 1 ELSE NumberOf(SubSeq(enc, i + 1, j - 1))]>>
             \o RunsOf(enc, j)

RECURSIVE Expand(_)
Expand(runs) ==
    IF runs = <<>> THEN <<>>
    ELSE [x \in 1..runs[1].n |-> runs[1].ch] \o Expand(SubSeq(runs, 2, Len(runs)))

RleDecode(enc) == Expand(RunsOf(enc, 1))

RowLinesOf(ls) == SelectSeq(ls, LAMBDA l : l.t = "row")
RowGlyphs(r) == [c \in 1..Max(cols, 0) |-> Glyph(density[r][c - 1], kinds[r][c - 1], blocks)]
RowBlank(r) == \A c \in 1..Max(cols, 0) : RowGlyphs(r)[c] = " "
SparseDone == op = "map" /\ pc = "done" /\ sparse /\ vw > 0

\* the row lines cover rows 0..rows-1 in order, each a maximal block of
\* identical rows
RowBlocksCover(rl) ==
    /\ (rows > 0) => (Len(rl) > 0 /\ rl[1].first = 0 /\ rl[Len(rl)].last = rows - 1)
    /\ (rows <= 0) => rl = <<>>
    /\ \A m \in 1..Len(rl) :
          /\ rl[m].first <= rl[m].last
          /\ \A r \in rl[m].first..rl[m].last : RowGlyphs(r) = RowGlyphs(rl[m].first)
          /\ m < Len(rl) =>
                /\ rl[m + 1].first = rl[m].last + 1
                /\ RowGlyphs(rl[m + 1].first) # RowGlyphs(rl[m].first)

\* C8 as stated: every maximal block of k identical rows, all-blank blocks
\* included, is one line 'r<i>: ...' (k = 1), 'r<i>-<i+k-1>: ...' (k = 2) or
\* 'r<i>-<i+k-1>: ...  (x<k>)' (k > 2).
RowBlocksAllSuffixed ==
    SparseDone =>
        LET rl == RowLinesOf(lines)
        IN  /\ RowBlocksCover(rl)
            /\ \A m \in 1..Len(rl) :
                  LET k == rl[m].last - rl[m].first + 1
                  IN  /\ rl[m].ranged <=> (k >= 2)
                      /\ rl[m].times = (IF k > 2 THEN k ELSE 0)

\* C8 (amended): as above, except that an all-blank block is rendered with the
\* body '(empty)' and never carries the '(x<k>)' suffix: 'r<i>: (empty)' for
\* k = 1 and 'r<i>-<i+k-1>: (empty)' for every k >= 2; a block that is not
\* blank has its run-length encoding as body.
RowBlocksRendered ==
    SparseDone =>
        LET rl == RowLinesOf(lines)
        IN  /\ RowBlocksCover(rl)
            /\ \A m \in 1..Len(rl) :
                  LET k == rl[m].last - rl[m].first + 1
                      blank == RowBlank(rl[m].first)
                  IN  /\ rl[m].ranged <=> (k >= 2)
                      /\ rl[m].times = (IF k > 2 /\ ~blank THEN k ELSE 0)
                      /\ blank => rl[m].body = <<"(empty)">>
                      /\ ~blank => RleDecode(rl[m].body) = RowGlyphs(rl[m].first)

\* one output with a non-blank block of more than two rows and a blank one
RowBlocksWitness ==
    /\ SparseDone
    /\ LET rl == RowLinesOf(lines)
       IN  /\ \E m \in 1..Len(rl) :
                 rl[m].last - rl[m].first >= 2 /\ ~RowBlank(rl[m].first) /\ rl[m].times >= 3
           /\ \E m \in 1..Len(rl) :
                 rl[m].last - rl[m].first >= 2 /\ RowBlank(rl[m].first) /\ rl[m].times = 0

\* C9: an empty element list renders (valid viewport, dense or sparse): every
\* cell has density 0 and no kind, every glyph is blank, and the output has
\* neither the Interactive header nor an entry line.
EmptyListRenders ==
    (op = "map" /\ elements = <<>> /\ vw > 0) =>
        /\ pc # "failed" /\ err = ""
        /\ pc = "done" =>
              /\ \A r \in 0..(rows - 1), c \in 0..(cols - 1) :
                    density[r][c] = 0 /\ kinds[r][c] = NoKind
              /\ \A x \in 1..Len(lines) :
                    /\ lines[x].t \notin {"iheader", "entry"}
                    /\ lines[x].t = "grid" =>
                          \A c \in 1..Len(lines[x].chars) : lines[x].chars[c] = " "
                    /\ lines[x].t = "row" => lines[x].body = <<"(empty)">>
              /\ ~sparse => Len(SelectSeq(lines, LAMBDA l : l.t = "grid")) = rows
              /\ sparse => (rows > 0 => Len(RowLinesOf(lines)) = 1)

\* a dense rendering of an empty list on a grid with cells
EmptyListWitness ==
    /\ op = "map" /\ elements = <<>> /\ vw > 0 /\ pc = "done" /\ ~sparse
    /\ rows >= 2 /\ cols >= 2
    /\ \E x \in 1..Len(lines) : lines[x].t = "grid"

HeadsOf(ls) == SelectSeq(ls, LAMBDA l : l.t = "head")
RectsOf(ls) == SelectSeq(ls, LAMBDA l : l.t = "rect")
AtDone == op \in {"at_run", "at_api"} /\ pc = "done" /\ stack # <<>>

\* C10 as stated: for a caller-supplied stack of any length,
\* render_elements_at renders blocks for no more than the first 15 entries.
AtMostFifteenBlocks ==
    AtDone =>
        /\ Len(HeadsOf(lines)) <= 15
        /\ \A i \in 1..Len(HeadsOf(lines)) :
              HeadsOf(lines)[i].i = i - 1 /\ HeadsOf(lines)[i].tag = stack[i].tag

\* C10 (amended): render_elements_at renders one block per entry of the list
\* it is given, all of them, in the given order; the maximum of 15 is
\* enforced by ELEMENTS_AT_JS, so the point query of run() renders the first
\* 15 elements under the point and no more.
AtBlocksFollowStack ==
    AtDone =>
        LET hs == HeadsOf(lines)
            rs == RectsOf(lines)
        IN  /\ Len(hs) = Len(stack) /\ Len(rs) = Len(stack)
            /\ \A i \in 1..Len(stack) :
                  /\ hs[i].i = i - 1 /\ hs[i].tag = stack[i].tag
                  /\ rs[i].x = stack[i].rect.x /\ rs[i].y = stack[i].rect.y
            /\ op = "at_run" =>
                  /\ Len(hs) <= 15
                  /\ Len(hs) = (IF Len(els) > 15 THEN 15 ELSE Len(els))
                  /\ \A i \in 1..Len(hs) : rs[i].x = els[i].rect.x

\* the point query of run() over more than 15 elements: 15 blocks
AtCapWitness ==
    /\ AtDone /\ op = "at_run"
    /\ Len(els) > 15
    /\ Len(HeadsOf(lines)) = 15

\* the glyph tables of the two palettes: shades for densities 0..7 (every
\* density >= 8 is solid), and one glyph per kind
AsciiShades == <<" ", ".", ":", ":", "#", "#", "#", "#">>
BlockShades == <<" ", "u2591", "u2592", "u2592", "u2593", "u2593", "u2593", "u2593">>
AsciiKinds == [k \in {"B", "F", "L", "I", "T"} |-> k]
BlockKinds == [B |-> "u25a3", F |-> "u25a4", L |-> "u25a8", I |-> "u25a7", T |-> "u25a5"]

ExpectedGlyph(d, k, blk) ==
    IF k # NoKind THEN (IF blk THEN BlockKinds[k] ELSE AsciiKinds[k])
    ELSE IF d >= 8 THEN (IF blk THEN "u2588" ELSE "@")
    ELSE (IF blk THEN BlockShades[d + 1] ELSE AsciiShades[d + 1])

ExpectedRow(r) ==
    [c \in 1..Max(cols, 0) |-> ExpectedGlyph(density[r][c - 1], kinds[r][c - 1], blocks)]

GridLinesOf(ls) == SelectSeq(ls, LAMBDA l : l.t = "grid")

\* C11: in the dense and in the sparse output the glyph of every cell is the
\* kind's fixed glyph when the cell has a dominant kind, whatever its
\* density, and otherwise the shade of its density: 0 blank, 1 light, 2-3
\* medium, 4-7 heavy, 8 and more solid, in the palette of the call.
GlyphOfCell ==
    (op = "map" /\ pc = "done" /\ vw > 0) =>
        /\ ~sparse =>
              /\ Len(GridLinesOf(lines)) = Max(rows, 0)
              /\ \A r \in 0..(rows - 1) : GridLinesOf(lines)[r + 1].chars = ExpectedRow(r)
        /\ sparse =>
              \A m \in 1..Len(RowLinesOf(lines)) :
                  LET l == RowLinesOf(lines)[m]
                  IN  \A r \in l.first..l.last :
                         IF l.body = <<"(empty)">>
                         THEN \A c \in 1..Max(cols, 0) : ExpectedRow(r)[c] = " "
                         ELSE RleDecode(l.body) = ExpectedRow(r)

\* one dense row showing every shade, kind-less densities 0, 1, 3, 4, 7, 8
\* and 9 side by side, next to a button cell of density 8 or more
GlyphShadesWitness ==
    /\ op = "map" /\ pc = "done" /\ vw > 0 /\ ~sparse /\ rows >= 1
    /\ \A d \in {0, 1, 3, 4, 7, 8, 9} :
          \E c \in 0..(cols - 1) : density[0][c] = d /\ kinds[0][c] = NoKind
    /\ \E c \in 0..(cols - 1) : density[0][c] >= 8 /\ kinds[0][c] = "B"

\* every element lies inside the viewport, as the DOM walker delivers them
InViewport ==
    \A i \in 1..Len(elements) :
        /\ elements[i].x >= 0 /\ elements[i].y >= 0
        /\ elements[i].x + elements[i].w <= vw
        /\ elements[i].y + elements[i].h <= vh

\* C12: the grid centre published for every interactive element is clamped
\* to the grid: 0 <= grid_col <= cols-1 and 0 <= grid_row <= rows-1.  Stated
\* here for the inputs the DOM walker can deliver only (elements inside the
\* viewport), which the claim includes.
GridCentreClamped ==
    (op = "map" /\ pc \in {"raster", "emit", "done"} /\ vw > 0 /\ InViewport) =>
        \A i \in 1..Len(interactive) :
            /\ 0 <= interactive[i].gc /\ interactive[i].gc <= cols - 1
            /\ 0 <= interactive[i].gr /\ interactive[i].gr <= rows - 1

\* C13: for every viewport with width > 0 and every positive max_cols, also
\* above 16000, the row count after the cell-cap reduction is at least 1, so
\* the clamping bound rows-1 is never negative.
RowsAtLeastOne ==
    (GridKnown /\ vw > 0 /\ vh >= 0 /\ max_cols > 0) => rows >= 1

SentIds(ms) == { ms[i].id : i \in 1..Len(ms) }

\* a turn of send's loop: ws.recv delivered one more message
Received == cdp_n' = cdp_n + 1
\* send returns in this step
Returns == cdp_pc = "waiting" /\ cdp_pc' = "idle"

ReturnsOnOwnReply ==
    Returns =>
        /\ Received
        /\ cdp_resp'.id = cdp_req
        /\ cdp_resp'.method # Dialog
        /\ cdp_ret' = [req |-> cdp_req,
                       result |-> IF cdp_resp'.result = "none" THEN "{}"
                                                                ELSE cdp_resp'.result]

DialogAnswered ==
    (Received /\ cdp_resp'.method = Dialog) =>
        /\ cdp_pc' = "waiting" /\ cdp_req' = cdp_req /\ cdp_ret' = cdp_ret
        /\ Len(cdp_sent') = Len(cdp_sent) + 1
        /\ SubSeq(cdp_sent', 1, Len(cdp_sent)) = cdp_sent
        /\ cdp_sent'[Len(cdp_sent')].method = Handle
        /\ cdp_sent'[Len(cdp_sent')].params = "accept:true"
        /\ cdp_sent'[Len(cdp_sent')].id > cdp_req
        /\ cdp_sent'[Len(cdp_sent')].id \notin SentIds(cdp_sent)

HandleOnlyForDialog ==
    (Received /\ cdp_resp'.method # Dialog) => cdp_sent' = cdp_sent

IdsIncrease ==
    \A i, j \in 1..Len(cdp_sent') : i < j => cdp_sent'[i].id < cdp_sent'[j].id

\* C14: whatever messages arrive during CDP.send, the call returns only on
\* a message whose id is the id of the request it sent, and returns that
\* message's result ({} when it has none); a Page.javascriptDialogOpening
\* event never ends the call and is answered with exactly one
\* Page.handleJavaScriptDialog(accept=true) under a fresh id greater than the
\* request's, no other message being answered; and the ids sent on one CDP
\* object are strictly increasing.
SendReturnsOnOwnReply ==
    [][ReturnsOnOwnReply /\ DialogAnswered /\ HandleOnlyForDialog /\ IdsIncrease]_vars

\* two calls have returned, the second after a dialog was answered inside
\* it and on its own reply, which had a result; at least one message was
\* read and skipped
SendWitness ==
    /\ op = "cdp" /\ cdp_pc = "idle"
    /\ Len(cdp_sent) >= 3
    /\ cdp_sent[Len(cdp_sent)].method = Handle
    /\ cdp_sent[Len(cdp_sent) - 1].method # Handle
    /\ cdp_ret.req = cdp_sent[Len(cdp_sent) - 1].id
    /\ cdp_ret.result = "r1"
    /\ cdp_resp.id = cdp_ret.req
    /\ cdp_n >= 4

====
